---- MODULE Spec2Model ----
(***************************************************************************)
(* Model of drun/run.py: the Docker lifecycle controller.                  *)
(*                                                                         *)
(* One invocation of Docker.run is a process that walks through setup,     *)
(* the two state queries, the validation table and the operation's         *)
(* sequence of engine commands.  Every subprocess.run call is one step;    *)
(* the argv it passes and the way it ended are appended to the             *)
(* invocation's trace, every print() to its out.  The container engine is  *)
(* the environment: a container (exists / running) and an image under the  *)
(* same name.  The model is of debug level 0 (dbg prints nothing).         *)
(***************************************************************************)
EXTENDS Integers, Sequences, FiniteSets, TLC

\* ------------------------------------------------------------------ bounds
\* longest port list tried for run_cmd
MaxPorts == 2

\* --------------------------------------------------------------- constants
Procs == {1, 2}

Ops == {"CREATE", "START", "STOP", "RESTART", "CLEAN", "RESET", "NUKE"}

\* op.name.lower()
LowerName(o) ==
  CASE o = "CREATE"  -> "create"
    [] o = "START"   -> "start"
    [] o = "STOP"    -> "stop"
    [] o = "RESTART" -> "restart"
    [] o = "CLEAN"   -> "clean"
    [] o = "RESET"   -> "reset"
    [] o = "NUKE"    -> "nuke"

Names == {"dev", "web"}
Users == {"developer", "alice"}
PortPairs == {<<8080, 80>>, <<2222, 22>>}

\* how a call can end: it returns, it raises CalledProcessError (check=True
\* and a non-zero exit), or it raises something else (OSError ...)
Outcomes == {"ok", "cpe", "exc"}

\* self.dir, self.df, TMPL/"Dockerfile.template"
DirOf(n) == "projects/" \o n
DfOf(n) == DirOf(n) \o "/Dockerfile"
Template == "drun/templates/Dockerfile.template"

\* RuntimeConfig as held by a Docker object; script "" is the falsy None
NoScript == ""
MkCfg(u, s, r, ps) ==
  [user |-> u, pwd |-> "password", ws |-> "/abs/workspace",
   script |-> s, root |-> r, ports |-> ps]

\* the configurations the lifecycle model is run with
RunConfigs ==
  { MkCfg("developer", NoScript, FALSE, <<>>),
    MkCfg("alice", "init.sh", TRUE, <<<<8080, 80>>, <<2222, 22>>>>) }

\* ----------------------------------------------------------- pure helpers
\* Python's  sub in s  on strings
Contains(s, sub) ==
  \E i \in 1..(Len(s) - Len(sub) + 1) : SubSeq(s, i, i + Len(sub) - 1) = sub

\* PortArgs with a port pair published once however often it is configured
RECURSIVE PortArgs_dedup(_)
PortArgs_dedup(ps) ==
  IF ps = <<>> THEN <<>>
  ELSE (IF \E i \in 2..Len(ps) : ps[i] = Head(ps)
          THEN <<>>
          ELSE <<"-p", ToString(Head(ps)[1]) \o ":" \o ToString(Head(ps)[2])>>)
         \o PortArgs_dedup(Tail(ps))

\* sum([("-p", f"{h}:{c}") for h,c in ports], ())
RECURSIVE PortArgs(_)
PortArgs(ps) ==
  IF ps = <<>> THEN <<>>
  ELSE <<"-p", ToString(Head(ps)[1]) \o ":" \o ToString(Head(ps)[2])>>
         \o PortArgs(Tail(ps))

run_cmd(n, cfg) ==
  <<"docker", "run", "-d", "--name", n>>
    \o PortArgs(cfg.ports)
    \o <<"-v", cfg.ws \o ":/home/" \o cfg.user \o "/workspace">>
    \o (IF ~cfg.root THEN <<"-u", cfg.user>> ELSE <<>>)
    \o <<n>>

BuildArgv(n, cfg) ==
  <<"docker", "build",
    "--build-arg", "USERNAME=" \o cfg.user,
    "--build-arg", "USER_PASSWORD=" \o cfg.pwd,
    "-t", n, "-f", DfOf(n), DirOf(n)>>

\* ExistsArgv without -a: only running containers are listed
ExistsArgv_noAll(n) ==
  <<"docker", "ps", "--filter", "name=^" \o n \o "$",
    "--format", "{{.Names}}">>

ExistsArgv(n) ==
  <<"docker", "ps", "-a", "--filter", "name=^" \o n \o "$",
    "--format", "{{.Names}}">>

RunningArgv(n) ==
  <<"docker", "ps", "--filter", "name=^" \o n \o "$",
    "--format", "{{.Names}}">>

SyncArgv(n) == <<"docker", "exec", n, "sync">>

DropArgv(n) ==
  <<"docker", "exec", n, "bash", "-c", "echo 3 > /proc/sys/vm/drop_caches">>

ScriptArgv(n, cfg) ==
  <<"docker", "exec", n, "bash", "-c",
    "cd /home/" \o cfg.user \o "/workspace && ./" \o cfg.script>>

\* TeardownArgv that removes whatever was observed
TeardownArgv_rm(n, rn) == <<"docker", "rm", n>>

\* TeardownArgv with the two branches exchanged
TeardownArgv_swapped(n, rn) == <<"docker", IF rn THEN "rm" ELSE "stop", n>>

\* ["docker", "stop" if running else "rm", self.name]
TeardownArgv(n, rn) == <<"docker", IF rn THEN "stop" ELSE "rm", n>>

\* what docker ps prints for the filter name=^<name>$
PsStdout(n, listed) == IF listed THEN n \o "\n" ELSE ""

\* ---------------------------------------------------------- configuration
\* an optional value: Python's None, or a value
None == <<>>
Some(v) == <<v>>

\* the keys of ENV that feed the RuntimeConfig (DEBUG is left at "0")
EnvVars == {"USER", "PASS", "WORKSPACE", "ROOT", "PORTS", "STARTUP"}

\* the built-in defaults of the ENV dict
EnvDefault(k) ==
  CASE k = "USER"      -> Some("developer")
    [] k = "PASS"      -> Some("password")
    [] k = "WORKSPACE" -> Some("./workspace")
    [] k = "ROOT"      -> Some("0")
    [] k = "PORTS"     -> Some("")
    [] k = "STARTUP"   -> None

\* ENV = {k: os.getenv(f"DOCKER_{k}", v) ...}
ENV(e) == [k \in EnvVars |-> IF e[k] # None THEN e[k] ELSE EnvDefault(k)]

NoEnv == [k \in EnvVars |-> None]
NoArgs ==
  [user |-> None, pwd |-> None, ws |-> None, script |-> None,
   ports |-> None, root |-> None]

\* truth value of an optional string / an optional list
Truthy(o) == o # None /\ o[1] # ""
TruthyList(o) == o # None /\ Len(o[1]) > 0

\* a or b
OrElse(a, b) == IF Truthy(a) THEN a ELSE b

\* s.split(sep) for a one-character separator
RECURSIVE Split(_, _)
Split(s, sep) ==
  IF \E i \in 1..Len(s) : SubSeq(s, i, i) = sep
    THEN LET i == CHOOSE k \in 1..Len(s) :
                    /\ SubSeq(s, k, k) = sep
                    /\ \A j \in 1..(k - 1) : SubSeq(s, j, j) # sep
         IN <<SubSeq(s, 1, i - 1)>> \o Split(SubSeq(s, i + 1, Len(s)), sep)
    ELSE <<s>>

\* int(s) for a string of decimal digits
Digit(c) == CHOOSE d \in 0..9 : ToString(d) = c
RECURSIVE ParseInt(_)
ParseInt(s) ==
  IF Len(s) = 1 THEN Digit(s)
  ELSE 10 * ParseInt(SubSeq(s, 1, Len(s) - 1))
         + Digit(SubSeq(s, Len(s), Len(s)))

\* tuple(map(int, p.split(":")))
ParsePair(p) ==
  [i \in 1..Len(Split(p, ":")) |-> ParseInt(Split(p, ":")[i])]

\* [tuple(map(int, p.split(":"))) for p in ENV["PORTS"].split(",")]
EnvPorts(s) == [i \in 1..Len(Split(s, ",")) |-> ParsePair(Split(s, ",")[i])]

\* [(int(h),int(c)) for p in (args.ports or []) for h,c in [p.split(":")]]
CliPorts(o) ==
  IF TruthyList(o) THEN [i \in 1..Len(o[1]) |-> ParsePair(o[1][i])] ELSE <<>>

\* os.path.abspath, for a process whose working directory is /cwd
Abspath(s) ==
  IF SubSeq(s, 1, 1) = "/" THEN s
  ELSE "/cwd/" \o (IF SubSeq(s, 1, 2) = "./" THEN SubSeq(s, 3, Len(s)) ELSE s)

\* Docker.__init__: the fields resolved from the arguments and ENV
DockerInit(e, a) ==
  LET script == OrElse(a.script, ENV(e)["STARTUP"])
  IN [user   |-> OrElse(a.user, ENV(e)["USER"])[1],
      pwd    |-> OrElse(a.pwd, ENV(e)["PASS"])[1],
      ws     |-> Abspath(OrElse(a.ws, ENV(e)["WORKSPACE"])[1]),
      script |-> IF script = None THEN NoScript ELSE script[1],
      root   |-> IF a.root # None THEN a.root[1]
                 ELSE ParseInt(ENV(e)["ROOT"][1]) # 0,
      ports  |-> IF ~TruthyList(a.ports) /\ ENV(e)["PORTS"][1] # ""
                   THEN EnvPorts(ENV(e)["PORTS"][1])
                   ELSE IF TruthyList(a.ports) THEN a.ports[1] ELSE <<>>]

\* the keyword arguments main() passes to Docker(...)
MainArgs(cli) ==
  [user |-> cli.username, pwd |-> cli.password, ws |-> cli.workspace,
   script |-> cli.startup_script,
   ports |-> Some(CliPorts(cli.ports)),
   root |-> Some(cli.root)]

\* the environments, constructor arguments and command lines tried
Environs ==
  { [k \in EnvVars |->
       CASE k = "USER"      -> IF "USER" \in s THEN Some("envuser") ELSE None
         [] k = "PASS"      -> IF "PASS" \in s THEN Some("envpass") ELSE None
         [] k = "WORKSPACE" -> IF "WORKSPACE" \in s THEN Some("/env/ws") ELSE None
         [] k = "ROOT"      -> IF "ROOT" \in s THEN Some("1") ELSE None
         [] k = "PORTS"     -> IF "PORTS" \in s THEN Some("8080:80,2222:22") ELSE None
         [] k = "STARTUP"   -> IF "STARTUP" \in s THEN Some("env.sh") ELSE None]
    : s \in SUBSET EnvVars }

CtorArgs ==
  [user : {None, Some("alice")}, pwd : {None, Some("secret")},
   ws : {None, Some("/srv/ws")}, script : {None, Some("init.sh")},
   ports : {None, Some(<<<<9090, 90>>>>)},
   root : {None, Some(TRUE), Some(FALSE)}]

CliArgs ==
  [username : {None, Some("alice")}, password : {None, Some("secret")},
   workspace : {None, Some("/srv/ws")}, startup_script : {None, Some("init.sh")},
   ports : {None, Some(<<"9090:90">>)},
   root : BOOLEAN]

\* ------------------------------------------------------- validation table
StartMsg == "'not found' if not exists else 'running'"
StopMsg == "'not found' if not exists else 'not running'"

\* checks with Start rejected only for a missing container
checks_startMissingOnly(ex, rn) ==
  << [op |-> "CREATE",  cond |-> ex,             msg |-> "exists. Use 'start' or 'reset'."],
     [op |-> "START",   cond |-> ~ex,            msg |-> StartMsg],
     [op |-> "STOP",    cond |-> (~ex \/ ~rn),   msg |-> StopMsg],
     [op |-> "RESTART", cond |-> ~ex,            msg |-> "not found. Use 'create'."],
     [op |-> "CLEAN",   cond |-> ~ex,            msg |-> "not found. Use 'create'."] >>

\* checks without the entry for Create
checks_noCreate(ex, rn) ==
  << [op |-> "START",   cond |-> (~ex \/ rn),    msg |-> StartMsg],
     [op |-> "STOP",    cond |-> (~ex \/ ~rn),   msg |-> StopMsg],
     [op |-> "RESTART", cond |-> ~ex,            msg |-> "not found. Use 'create'."],
     [op |-> "CLEAN",   cond |-> ~ex,            msg |-> "not found. Use 'create'."] >>

\* checks with Create rejected only for a running container
checks_createRunningOnly(ex, rn) ==
  << [op |-> "CREATE",  cond |-> (ex /\ rn),     msg |-> "exists. Use 'start' or 'reset'."],
     [op |-> "START",   cond |-> (~ex \/ rn),    msg |-> StartMsg],
     [op |-> "STOP",    cond |-> (~ex \/ ~rn),   msg |-> StopMsg],
     [op |-> "RESTART", cond |-> ~ex,            msg |-> "not found. Use 'create'."],
     [op |-> "CLEAN",   cond |-> ~ex,            msg |-> "not found. Use 'create'."] >>

\* checks with Stop rejected only for a missing container
checks_stopMissingOnly(ex, rn) ==
  << [op |-> "CREATE",  cond |-> ex,             msg |-> "exists. Use 'start' or 'reset'."],
     [op |-> "START",   cond |-> (~ex \/ rn),    msg |-> StartMsg],
     [op |-> "STOP",    cond |-> ~ex,            msg |-> StopMsg],
     [op |-> "RESTART", cond |-> ~ex,            msg |-> "not found. Use 'create'."],
     [op |-> "CLEAN",   cond |-> ~ex,            msg |-> "not found. Use 'create'."] >>

\* checks without the entry for Clean
checks_noClean(ex, rn) ==
  << [op |-> "CREATE",  cond |-> ex,             msg |-> "exists. Use 'start' or 'reset'."],
     [op |-> "START",   cond |-> (~ex \/ rn),    msg |-> StartMsg],
     [op |-> "STOP",    cond |-> (~ex \/ ~rn),   msg |-> StopMsg],
     [op |-> "RESTART", cond |-> ~ex,            msg |-> "not found. Use 'create'."] >>

\* the checks dict of Docker.run, in insertion order
checks(ex, rn) ==
  << [op |-> "CREATE",  cond |-> ex,             msg |-> "exists. Use 'start' or 'reset'."],
     [op |-> "START",   cond |-> (~ex \/ rn),    msg |-> StartMsg],
     [op |-> "STOP",    cond |-> (~ex \/ ~rn),   msg |-> StopMsg],
     [op |-> "RESTART", cond |-> ~ex,            msg |-> "not found. Use 'create'."],
     [op |-> "CLEAN",   cond |-> ~ex,            msg |-> "not found. Use 'create'."] >>

\* eval(msg) with the locals exists and running of Docker.run
EvalMsg(msg, ex, rn) ==
  CASE msg = StartMsg -> (IF ~ex THEN "not found" ELSE "running")
    [] msg = StopMsg  -> (IF ~ex THEN "not found" ELSE "not running")
    [] OTHER          -> "SyntaxError"

\* eval(msg) if '{' in msg else msg
Detail(msg, ex, rn) == IF Contains(msg, "{") THEN EvalMsg(msg, ex, rn) ELSE msg

\* indices of the checks entries that fire for this operation
Hits(o, ex, rn) ==
  { i \in 1..Len(checks(ex, rn)) :
      checks(ex, rn)[i].op = o /\ checks(ex, rn)[i].cond }

Rejected(o, ex, rn) == Hits(o, ex, rn) # {}

\* the entry the for loop returns on: the first that fires
FirstHit(o, ex, rn) ==
  CHOOSE i \in Hits(o, ex, rn) : \A j \in Hits(o, ex, rn) : i <= j

RejectLine(n, o, ex, rn) ==
  "Container " \o n \o " "
    \o Detail(checks(ex, rn)[FirstHit(o, ex, rn)].msg, ex, rn)

\* FirstStep with Op.START dispatched to docker restart
FirstStep_startRestarts(o, ex) ==
  CASE o = "CREATE"  -> "create"
    [] o = "START"   -> "restart"
    [] o = "STOP"    -> "stop"
    [] o = "RESTART" -> "restart"
    [] o = "CLEAN"   -> "sync"
    [] o = "RESET"   -> (IF ex THEN "teardown" ELSE "create")
    [] o = "NUKE"    -> (IF ex THEN "teardown" ELSE "rmi")

\* the first step of ops[self.op]()
FirstStep(o, ex) ==
  CASE o = "CREATE"  -> "create"
    [] o = "START"   -> "start"
    [] o = "STOP"    -> "stop"
    [] o = "RESTART" -> "restart"
    [] o = "CLEAN"   -> "sync"
    [] o = "RESET"   -> (IF ex THEN "teardown" ELSE "create")
    [] o = "NUKE"    -> (IF ex THEN "teardown" ELSE "rmi")

\* AfterTeardown with the image removal of Op.NUKE left out
AfterTeardown_noRmi(o) == "create"

\* Op.RESET goes from the teardown to create(), Op.NUKE to docker rmi
AfterTeardown(o) == IF o = "NUKE" THEN "rmi" ELSE "create"

\* AfterBuild with the result of self.build() ignored
AfterBuild_ignored(r) == "run"

\* AfterBuild with a failed build attempted again
AfterBuild_retry(r) == IF r = "ok" THEN "run" ELSE "build"

\* if not self.build(): return
AfterBuild(r) == IF r = "ok" THEN "run" ELSE "done"

\* AfterRun with the startup exec issued whatever self.script is
AfterRun_always(c) == "script"

\* if self.script: the startup exec follows docker run
AfterRun(c) == IF c.script # NoScript THEN "script" ELSE "done"

\* ----------------------------------------------------------------- output
CompletedLine(o) == "Operation '" \o LowerName(o) \o "' completed!"

\* the except clause of Docker.run
ErrorLine(r) ==
  (IF r = "cpe" THEN "Error during" ELSE "Unexpected") \o " error: " \o r

BuildFailedLine(r) == "Build failed: " \o r
CacheFailedLine(r) == "Cache clear failed: " \o r
NoDockerfileLine(n) == "No Dockerfile at " \o DfOf(n)

\* ------------------------------------------------------------------ state
VARIABLES
  name,       \* the container identity (self.name), also the image tag
  environ,    \* os.environ when the module is imported: the DOCKER_* variables
  given,      \* per invocation: the overrides the caller gave explicitly
  cExists,    \* engine: a container of this name exists
  cRunning,   \* engine: and it is running
  image,      \* engine: an image tagged with this name exists
  dirExists,  \* file system: self.dir
  dfExists,   \* file system: self.df
  pc,         \* per invocation: where it is
  op,         \* self.op
  cfg,        \* the RuntimeConfig fields of self
  exists,     \* local exists of Docker.run
  running,    \* local running of Docker.run
  trace,      \* calls made so far: [argv, result]
  out         \* lines printed so far

engine == <<cExists, cRunning, image>>
files == <<name, environ, given, dirExists, dfExists>>
locals == <<op, cfg, exists, running>>
vars == <<name, environ, given, cExists, cRunning, image, dirExists, dfExists,
          pc, op, cfg, exists, running, trace, out>>

IdleCfg == MkCfg("developer", NoScript, FALSE, <<>>)

Init ==
  /\ name \in Names
  /\ environ = NoEnv
  /\ given = [p \in Procs |-> NoArgs]
  /\ cExists = FALSE
  /\ cRunning = FALSE
  /\ image = FALSE
  /\ dirExists = FALSE
  /\ dfExists = FALSE
  /\ pc = [p \in Procs |-> "idle"]
  /\ op = [p \in Procs |-> "CREATE"]
  /\ cfg = [p \in Procs |-> IdleCfg]
  /\ exists = [p \in Procs |-> FALSE]
  /\ running = [p \in Procs |-> FALSE]
  /\ trace = [p \in Procs |-> <<>>]
  /\ out = [p \in Procs |-> <<>>]

\* ---------------------------------------------------------------- updates
Call(argv, r) == [argv |-> argv, result |-> r]
Log(p, calls) == trace' = [trace EXCEPT ![p] = @ \o calls]
Say(p, lines) == out' = [out EXCEPT ![p] = @ \o lines]
Goto(p, l) == pc' = [pc EXCEPT ![p] = l]

\* an exception reaches the except clause of Docker.run
Raise(p, r) == Say(p, <<ErrorLine(r)>>) /\ Goto(p, "done")

\* ops[self.op]() returned: the print after it
Complete(p) == Say(p, <<CompletedLine(op[p])>>) /\ Goto(p, "done")

\* ---------------------------------------------------------------- actions
\* Docker(name, op, ...) is constructed and run() entered; invocations of
\* this specification do not overlap
Begin(p) ==
  /\ pc[p] = "idle"
  /\ \A q \in Procs \ {p} : pc[q] = "idle"
  /\ \E o \in Ops, c \in RunConfigs :
       /\ op' = [op EXCEPT ![p] = o]
       /\ cfg' = [cfg EXCEPT ![p] = c]
  /\ Goto(p, "setup")
  /\ UNCHANGED <<engine, files, exists, running, trace, out>>

\* self.setup(): mkdir the project directory, copy the Dockerfile template
Setup(p) ==
  /\ pc[p] = "setup"
  /\ \E rm \in {"ok", "exc"}, rc \in {"ok", "exc"} :
       LET doMkdir == ~dirExists
           mkOk    == ~doMkdir \/ rm = "ok"
           doCopy  == mkOk /\ ~dfExists
           cpOk    == ~doCopy \/ rc = "ok"
       IN /\ (~doMkdir => rm = "ok")
          /\ (~doCopy => rc = "ok")
          /\ dirExists' = (dirExists \/ (doMkdir /\ rm = "ok"))
          /\ dfExists' = (dfExists \/ (doCopy /\ rc = "ok"))
          /\ Log(p, (IF doMkdir THEN <<Call(<<"mkdir", DirOf(name)>>, rm)>> ELSE <<>>)
                    \o (IF doCopy THEN <<Call(<<"copy2", Template, DfOf(name)>>, rc)>> ELSE <<>>))
          /\ IF mkOk /\ cpOk
               THEN Goto(p, "exists") /\ UNCHANGED out
               ELSE Raise(p, "exc")
  /\ UNCHANGED <<name, environ, given, engine, locals>>

\* exists = self.exists(): docker ps -a; any exception gives False
Exists(p) ==
  /\ pc[p] = "exists"
  /\ \E r \in {"ok", "exc"} :
       /\ exists' = [exists EXCEPT ![p] =
            IF r = "ok" THEN Contains(PsStdout(name, cExists), name) ELSE FALSE]
       /\ Log(p, <<Call(ExistsArgv(name), r)>>)
  /\ Goto(p, "running")
  /\ UNCHANGED <<engine, files, op, cfg, running, out>>

\* running = self.running(): docker ps; any exception gives False
Running(p) ==
  /\ pc[p] = "running"
  /\ \E r \in {"ok", "exc"} :
       /\ running' = [running EXCEPT ![p] =
            IF r = "ok" THEN Contains(PsStdout(name, cRunning), name) ELSE FALSE]
       /\ Log(p, <<Call(RunningArgv(name), r)>>)
  /\ Goto(p, "checks")
  /\ UNCHANGED <<engine, files, op, cfg, exists, out>>

\* the for loop over checks, then the dispatch into ops
Checks(p) ==
  /\ pc[p] = "checks"
  /\ IF Rejected(op[p], exists[p], running[p])
       THEN /\ Say(p, <<RejectLine(name, op[p], exists[p], running[p])>>)
            /\ Goto(p, "done")
       ELSE /\ Goto(p, FirstStep(op[p], exists[p]))
            /\ UNCHANGED out
  /\ UNCHANGED <<engine, files, locals, trace>>

\* Op.START: docker start
Start(p) ==
  /\ pc[p] = "start"
  /\ \E r \in Outcomes :
       /\ (r = "ok" => cExists)
       /\ Log(p, <<Call(<<"docker", "start", name>>, r)>>)
       /\ cRunning' = (IF r = "ok" THEN TRUE ELSE cRunning)
       /\ IF r = "ok" THEN Complete(p) ELSE Raise(p, r)
  /\ UNCHANGED <<cExists, image, files, locals>>

\* Op.STOP: docker stop
Stop(p) ==
  /\ pc[p] = "stop"
  /\ \E r \in Outcomes :
       /\ (r = "ok" => cExists)
       /\ Log(p, <<Call(<<"docker", "stop", name>>, r)>>)
       /\ cRunning' = (IF r = "ok" THEN FALSE ELSE cRunning)
       /\ IF r = "ok" THEN Complete(p) ELSE Raise(p, r)
  /\ UNCHANGED <<cExists, image, files, locals>>

\* Op.RESTART, and the second element of Op.CLEAN: docker restart
Restart(p) ==
  /\ pc[p] = "restart"
  /\ \E r \in Outcomes :
       /\ (r = "ok" => cExists)
       /\ Log(p, <<Call(<<"docker", "restart", name>>, r)>>)
       /\ cRunning' = (IF r = "ok" THEN TRUE ELSE cRunning)
       /\ IF r = "ok" THEN Complete(p) ELSE Raise(p, r)
  /\ UNCHANGED <<cExists, image, files, locals>>

\* clear_cache, first call: docker exec sync; a failure is printed and
\* clear_cache returns
ClearCacheSync(p) ==
  /\ pc[p] = "sync"
  /\ \E r \in Outcomes :
       /\ (r = "ok" => cExists /\ cRunning)
       /\ Log(p, <<Call(SyncArgv(name), r)>>)
       /\ IF r = "ok"
            THEN Goto(p, "drop") /\ UNCHANGED out
            ELSE Say(p, <<CacheFailedLine(r)>>) /\ Goto(p, "restart")
  /\ UNCHANGED <<engine, files, locals>>

\* clear_cache, second call: docker exec drop_caches
ClearCacheDrop(p) ==
  /\ pc[p] = "drop"
  /\ \E r \in Outcomes :
       /\ (r = "ok" => cExists /\ cRunning)
       /\ Log(p, <<Call(DropArgv(name), r)>>)
       /\ IF r = "ok"
            THEN UNCHANGED out
            ELSE Say(p, <<CacheFailedLine(r)>>)
       /\ Goto(p, "restart")
  /\ UNCHANGED <<engine, files, locals>>

\* first element of Op.RESET / Op.NUKE when exists: docker stop or docker rm
Teardown(p) ==
  /\ pc[p] = "teardown"
  /\ \E r \in Outcomes :
       LET argv == TeardownArgv(name, running[p])
       IN
       /\ (r = "ok" => cExists)
       /\ (r = "ok" /\ argv[2] = "rm" => ~cRunning)
       /\ Log(p, <<Call(argv, r)>>)
       /\ cRunning' = (IF r = "ok" THEN FALSE ELSE cRunning)
       /\ cExists' = (IF r = "ok" /\ argv[2] = "rm" THEN FALSE ELSE cExists)
       /\ IF r = "ok"
            THEN Goto(p, AfterTeardown(op[p])) /\ UNCHANGED out
            ELSE Raise(p, r)
  /\ UNCHANGED <<image, files, locals>>

\* second element of Op.NUKE: docker rmi
Rmi(p) ==
  /\ pc[p] = "rmi"
  /\ \E r \in Outcomes :
       /\ (r = "ok" => image)
       /\ Log(p, <<Call(<<"docker", "rmi", name>>, r)>>)
       /\ image' = (IF r = "ok" THEN FALSE ELSE image)
       /\ IF r = "ok"
            THEN Goto(p, "create") /\ UNCHANGED out
            ELSE Raise(p, r)
  /\ UNCHANGED <<cExists, cRunning, files, locals>>

\* create(), up to the build: the Dockerfile test and os.makedirs
Create(p) ==
  /\ pc[p] = "create"
  /\ IF ~dfExists
       THEN /\ Say(p, <<NoDockerfileLine(name), CompletedLine(op[p])>>)
            /\ Goto(p, "done")
            /\ UNCHANGED trace
       ELSE \E r \in {"ok", "exc"} :
            /\ Log(p, <<Call(<<"makedirs", cfg[p].ws>>, r)>>)
            /\ IF r = "ok"
                 THEN Goto(p, "build") /\ UNCHANGED out
                 ELSE Raise(p, r)
  /\ UNCHANGED <<engine, files, locals>>

\* self.build(): docker build; a failure is printed, build returns False,
\* create returns and run() goes on to its print
Build(p) ==
  /\ pc[p] = "build"
  /\ \E r \in Outcomes :
       /\ Log(p, <<Call(BuildArgv(name, cfg[p]), r)>>)
       /\ image' = (IF r = "ok" THEN TRUE ELSE image)
       /\ Goto(p, AfterBuild(r))
       /\ out' = [out EXCEPT ![p] =
            @ \o (IF r = "ok" THEN <<>> ELSE <<BuildFailedLine(r)>>)
              \o (IF AfterBuild(r) = "done" THEN <<CompletedLine(op[p])>> ELSE <<>>)]
  /\ UNCHANGED <<cExists, cRunning, files, locals>>

\* subprocess.run(self.run_cmd(), check=True)
Run(p) ==
  /\ pc[p] = "run"
  /\ \E r \in Outcomes :
       /\ (r = "ok" => ~cExists /\ image)
       /\ Log(p, <<Call(run_cmd(name, cfg[p]), r)>>)
       /\ cExists' = (IF r = "ok" THEN TRUE ELSE cExists)
       /\ cRunning' = (IF r = "ok" THEN TRUE ELSE cRunning)
       /\ IF r # "ok" THEN Raise(p, r)
          ELSE IF AfterRun(cfg[p]) = "done"
                 THEN Complete(p)
                 ELSE Goto(p, AfterRun(cfg[p])) /\ UNCHANGED out
  /\ UNCHANGED <<image, files, locals>>

\* if self.script: docker exec of the startup script
Script(p) ==
  /\ pc[p] = "script"
  /\ \E r \in Outcomes :
       /\ (r = "ok" => cExists /\ cRunning)
       /\ Log(p, <<Call(ScriptArgv(name, cfg[p]), r)>>)
       /\ IF r = "ok" THEN Complete(p) ELSE Raise(p, r)
  /\ UNCHANGED <<engine, files, locals>>

\* the process ends; nothing of the invocation outlives it
Exit(p) ==
  /\ pc[p] = "done"
  /\ pc' = [pc EXCEPT ![p] = "idle"]
  /\ op' = [op EXCEPT ![p] = "CREATE"]
  /\ cfg' = [cfg EXCEPT ![p] = IdleCfg]
  /\ exists' = [exists EXCEPT ![p] = FALSE]
  /\ running' = [running EXCEPT ![p] = FALSE]
  /\ trace' = [trace EXCEPT ![p] = <<>>]
  /\ out' = [out EXCEPT ![p] = <<>>]
  /\ UNCHANGED <<engine, files>>

Next ==
  \E p \in Procs :
    \/ Begin(p)
    \/ Setup(p)
    \/ Exists(p)
    \/ Running(p)
    \/ Checks(p)
    \/ Start(p)
    \/ Stop(p)
    \/ Restart(p)
    \/ ClearCacheSync(p)
    \/ ClearCacheDrop(p)
    \/ Teardown(p)
    \/ Rmi(p)
    \/ Create(p)
    \/ Build(p)
    \/ Run(p)
    \/ Script(p)
    \/ Exit(p)

Spec == Init /\ [][Next]_vars

\* the statements of run() after the constructor: each one is executed once
\* the call before it has returned
Advance(p) ==
  \/ Setup(p)
  \/ Exists(p)
  \/ Running(p)
  \/ Checks(p)
  \/ Start(p)
  \/ Stop(p)
  \/ Restart(p)
  \/ ClearCacheSync(p)
  \/ ClearCacheDrop(p)
  \/ Teardown(p)
  \/ Rmi(p)
  \/ Create(p)
  \/ Build(p)
  \/ Run(p)
  \/ Script(p)

\* run() is synchronous straight-line code: provided every call returns,
\* an invocation that has a next statement executes it
SpecLive == Init /\ [][Next]_vars /\ \A p \in Procs : WF_vars(Advance(p))

\* ------------------------------------------- overlapping invocations
\* two separate processes run the tool on the same name: nothing in run()
\* makes one wait for the other
RaceOps == {"CREATE", "STOP", "RESET"}

BeginAny(p) ==
  /\ pc[p] = "idle"
  /\ \E o \in RaceOps, c \in RunConfigs :
       /\ op' = [op EXCEPT ![p] = o]
       /\ cfg' = [cfg EXCEPT ![p] = c]
  /\ Goto(p, "setup")
  /\ UNCHANGED <<engine, files, exists, running, trace, out>>

NextRace ==
  \E p \in Procs :
    \/ BeginAny(p)
    \/ Setup(p)
    \/ Exists(p)
    \/ Running(p)
    \/ Checks(p)
    \/ Stop(p)
    \/ Teardown(p)
    \/ Create(p)
    \/ Build(p)
    \/ Run(p)
    \/ Script(p)
    \/ Exit(p)

SpecRace == Init /\ [][NextRace]_vars

\* ------------------------------------------------- run_cmd on its own
\* test_run_cmd_generation: one Docker object whose ports and root fields
\* are set directly and whose run_cmd() is then called
TestObj == 1

PortLists == UNION { [1..k -> PortPairs] : k \in 0..MaxPorts }

InitCmd ==
  /\ name \in Names
  /\ environ = NoEnv
  /\ given = [p \in Procs |-> NoArgs]
  /\ cExists = FALSE
  /\ cRunning = FALSE
  /\ image = FALSE
  /\ dirExists = FALSE
  /\ dfExists = FALSE
  /\ pc = [p \in Procs |-> "idle"]
  /\ op = [p \in Procs |-> "CREATE"]
  /\ \E u \in Users :
       cfg = [p \in Procs |-> IF p = TestObj
                                THEN MkCfg(u, NoScript, FALSE, <<>>)
                                ELSE IdleCfg]
  /\ exists = [p \in Procs |-> FALSE]
  /\ running = [p \in Procs |-> FALSE]
  /\ trace = [p \in Procs |-> <<>>]
  /\ out = [p \in Procs |-> <<>>]

\* self.docker.ports = [...]
SetPorts(p) ==
  /\ pc[p] \in {"idle", "cmd"}
  /\ \E ps \in PortLists : cfg' = [cfg EXCEPT ![p].ports = ps]
  /\ pc' = [pc EXCEPT ![p] = "idle"]
  /\ trace' = [trace EXCEPT ![p] = <<>>]
  /\ UNCHANGED <<engine, files, op, exists, running, out>>

\* self.docker.root = True / False
SetRoot(p) ==
  /\ pc[p] \in {"idle", "cmd"}
  /\ \E b \in BOOLEAN : cfg' = [cfg EXCEPT ![p].root = b]
  /\ pc' = [pc EXCEPT ![p] = "idle"]
  /\ trace' = [trace EXCEPT ![p] = <<>>]
  /\ UNCHANGED <<engine, files, op, exists, running, out>>

\* cmd = self.docker.run_cmd()
RunCmd(p) ==
  /\ pc[p] = "idle"
  /\ trace' = [trace EXCEPT ![p] = <<Call(run_cmd(name, cfg[p]), "ret")>>]
  /\ pc' = [pc EXCEPT ![p] = "cmd"]
  /\ UNCHANGED <<engine, files, locals, out>>

NextCmd ==
  \/ SetPorts(TestObj)
  \/ SetRoot(TestObj)
  \/ RunCmd(TestObj)

SpecCmd == InitCmd /\ [][NextCmd]_vars

\* ------------------------------------------- configuration on its own
InitCfg ==
  /\ name \in Names
  /\ environ \in Environs
  /\ given = [p \in Procs |-> NoArgs]
  /\ cExists = FALSE
  /\ cRunning = FALSE
  /\ image = FALSE
  /\ dirExists = FALSE
  /\ dfExists = FALSE
  /\ pc = [p \in Procs |-> "idle"]
  /\ op = [p \in Procs |-> "CREATE"]
  /\ cfg = [p \in Procs |-> IdleCfg]
  /\ exists = [p \in Procs |-> FALSE]
  /\ running = [p \in Procs |-> FALSE]
  /\ trace = [p \in Procs |-> <<>>]
  /\ out = [p \in Procs |-> <<>>]

\* Docker(name, op, user=..., ...) called directly with keyword arguments
Construct(p) ==
  /\ pc[p] = "idle"
  /\ \E a \in CtorArgs :
       /\ given' = [given EXCEPT ![p] = a]
       /\ cfg' = [cfg EXCEPT ![p] = DockerInit(environ, a)]
  /\ pc' = [pc EXCEPT ![p] = "built"]
  /\ UNCHANGED <<name, environ, engine, dirExists, dfExists,
                 op, exists, running, trace, out>>

\* main(): the command line is parsed and Docker(...) constructed from it;
\* given records the options that were typed
MainCli(p) ==
  /\ pc[p] = "idle"
  /\ \E cli \in CliArgs :
       /\ given' = [given EXCEPT ![p] =
            [user |-> cli.username, pwd |-> cli.password,
             ws |-> cli.workspace, script |-> cli.startup_script,
             ports |-> IF cli.ports = None THEN None ELSE Some(<<<<9090, 90>>>>),
             root |-> IF cli.root THEN Some(TRUE) ELSE None]]
       /\ cfg' = [cfg EXCEPT ![p] = DockerInit(environ, MainArgs(cli))]
  /\ pc' = [pc EXCEPT ![p] = "parsed"]
  /\ UNCHANGED <<name, environ, engine, dirExists, dfExists,
                 op, exists, running, trace, out>>

NextCfg ==
  \/ Construct(TestObj)
  \/ MainCli(TestObj)

SpecCfg == InitCfg /\ [][NextCfg]_vars

\* ------------------------------------------------- reading a trace
IsEngine(c) == c.argv[1] = "docker"
IsQuery(c) == IsEngine(c) /\ c.argv[2] = "ps"
IsSetupCall(c) == c.argv[1] \in {"mkdir", "copy2"}
IsStep(c) == ~IsQuery(c) /\ ~IsSetupCall(c)
IsAction(c) == IsEngine(c) /\ ~IsQuery(c)

\* the calls of the invocation after its state queries
AfterQueries(p) == SelectSeq(trace[p], IsStep)
\* the engine calls of the invocation, queries included
EngineCalls(p) == SelectSeq(trace[p], IsEngine)
\* the engine actions of the invocation
Actions(p) == SelectSeq(trace[p], IsAction)

\* docker <verb> ..., or the name of the file system call
Tag(c) == IF IsEngine(c) THEN c.argv[2] ELSE c.argv[1]
Tags(cs) == [i \in 1..Len(cs) |-> Tag(cs[i])]

IsPrefix(s, t) == Len(s) <= Len(t) /\ s = SubSeq(t, 1, Len(s))
AllOk(cs) == \A i \in 1..Len(cs) : cs[i].result = "ok"

\* the invocation has got past the for loop over checks
Validated(p) ==
  /\ pc[p] \notin {"idle", "cmd", "built", "parsed",
                   "setup", "exists", "running", "checks"}
  /\ Len(SelectSeq(trace[p], IsQuery)) = 2

\* the table of section 4.1
TableRejects(o, ex, rn) ==
  \/ o = "CREATE" /\ ex
  \/ o = "START" /\ (~ex \/ rn)
  \/ o = "STOP" /\ (~ex \/ ~rn)
  \/ o = "RESTART" /\ ~ex
  \/ o = "CLEAN" /\ ~ex

\* the invocation ended without issuing anything after its queries
EndedEmpty(p) == pc[p] = "done" /\ AfterQueries(p) = <<>>

\* the sequence of an operation ended early only on a failed call
RanTo(p, expected) ==
  LET cs == AfterQueries(p)
  IN /\ IsPrefix(Tags(cs), expected)
     /\ (pc[p] = "done" /\ Tags(cs) # expected
           => cs # <<>> /\ cs[Len(cs)].result # "ok")

CreateTags(c) ==
  <<"makedirs", "build", "run">>
    \o (IF c.script # NoScript THEN <<"exec">> ELSE <<>>)

\* ------------------------------------------------------------------ C1
\* C1: an invocation that has passed its two state queries ends without
\* issuing any call of its sequence exactly when the table of section 4.1
\* rejects its operation for the observed (exists, running); RESET and NUKE
\* are rejected for no observation.
C1_ValidationGate ==
  \A p \in Procs :
    Validated(p) =>
      /\ TableRejects(op[p], exists[p], running[p]) <=> EndedEmpty(p)
      /\ op[p] \in {"RESET", "NUKE"} => ~EndedEmpty(p)

C1_Witness ==
  \E p \in Procs :
    /\ Validated(p) /\ EndedEmpty(p)
    /\ op[p] = "STOP" /\ exists[p] /\ ~running[p]

\* ------------------------------------------------------------------ C2
ExpectedDetail(o, ex, rn) ==
  IF ~ex THEN "not found"
  ELSE IF o = "START" THEN "already running" ELSE "not running"

\* C2: a rejected Start or Stop prints a line that carries the detail of
\* its cause: "not found" when the container was not observed, otherwise
\* "already running" (Start) or "not running" (Stop), and "not found" is
\* not reported for a container that was observed.
C2_RejectionDetail ==
  \A p \in Procs :
    (Validated(p) /\ EndedEmpty(p) /\ op[p] \in {"START", "STOP"}) =>
      /\ Len(out[p]) = 1
      /\ Contains(out[p][1], ExpectedDetail(op[p], exists[p], running[p]))
      /\ exists[p] => ~Contains(out[p][1], "not found")

\* ------------------------------------------------------------------ C3
C3_State ==
  \A p \in Procs :
    (Validated(p) /\ TableRejects(op[p], exists[p], running[p])) =>
      /\ Tags(EngineCalls(p)) = <<"ps", "ps">>
      /\ EngineCalls(p)[1].argv[3] = "-a"
      /\ Actions(p) = <<>>
      /\ \A i \in 1..Len(out[p]) : out[p][i] # CompletedLine(op[p])

C3_Step ==
  \A p \in Procs :
    (/\ pc[p] \in {"exists", "running", "checks"}
     /\ pc'[p] # pc[p]
     /\ pc[p] = "checks" => TableRejects(op[p], exists[p], running[p]))
      => engine' = engine

\* C3: a rejected invocation has made exactly two engine calls, the exists
\* query and the running query, no engine action, and has printed no
\* completion line; its query steps and its rejection step leave the
\* engine's container and image as they were.
C3_RejectedNoEffect == []C3_State /\ [][C3_Step]_vars

C3_Witness ==
  \E p \in Procs :
    /\ Validated(p) /\ pc[p] = "done"
    /\ op[p] = "CREATE" /\ exists[p] /\ cExists /\ cRunning
    /\ Len(out[p]) = 1

\* ------------------------------------------------------------------ C4
\* C4: a Create that passed validation issues makedirs, build, run and,
\* when and only when a startup script is configured, the startup exec, in
\* this order and nothing else; it stops short of that only on a failed
\* call.  Without a startup script its engine actions are build, run.
C4_CreateSequence ==
  \A p \in Procs :
    (Validated(p) /\ op[p] = "CREATE" /\ ~exists[p]) =>
      /\ RanTo(p, CreateTags(cfg[p]))
      /\ (pc[p] = "done" /\ AllOk(AfterQueries(p)) /\ cfg[p].script = NoScript)
           => Tags(Actions(p)) = <<"build", "run">>
      /\ \A i \in 1..Len(AfterQueries(p)) :
           /\ Tag(AfterQueries(p)[i]) = "run"
                => AfterQueries(p)[i].argv = run_cmd(name, cfg[p])
           /\ Tag(AfterQueries(p)[i]) = "exec"
                => AfterQueries(p)[i].argv = ScriptArgv(name, cfg[p])

C4_Witness ==
  \E p \in Procs :
    /\ Validated(p) /\ op[p] = "CREATE" /\ pc[p] = "done"
    /\ cfg[p].script # NoScript
    /\ Tags(AfterQueries(p)) = <<"makedirs", "build", "run", "exec">>
    /\ AllOk(AfterQueries(p))

\* ------------------------------------------------------------------ C5
\* C5: in a CLEAN invocation docker restart is issued only as the third
\* call, after a sync exec and a cache-drop exec that both succeeded.
C5_CleanFailFast ==
  \A p \in Procs :
    op[p] = "CLEAN" =>
      \A i \in 1..Len(AfterQueries(p)) :
        Tag(AfterQueries(p)[i]) = "restart" =>
          /\ i = 3
          /\ AfterQueries(p)[1] = Call(SyncArgv(name), "ok")
          /\ AfterQueries(p)[2] = Call(DropArgv(name), "ok")

\* ------------------------------------------------------------------ C6
\* C6: in a CREATE, RESET or NUKE invocation every call after the queries
\* except the last one made so far has succeeded: nothing is issued after
\* a failed teardown, image removal, makedirs, build or run.
C6_NothingAfterFailure ==
  \A p \in Procs :
    op[p] \in {"CREATE", "RESET", "NUKE"} =>
      \A i \in 1..(Len(AfterQueries(p)) - 1) : AfterQueries(p)[i].result = "ok"

C6_Witness ==
  \E p \in Procs :
    /\ op[p] = "NUKE" /\ pc[p] = "done"
    /\ Tags(AfterQueries(p)) = <<"stop", "rmi", "makedirs", "build">>
    /\ AfterQueries(p)[4].result = "cpe"

\* ------------------------------------------------------------------ C7
TeardownTags(ex, rn) ==
  IF ex THEN (IF rn THEN <<"stop">> ELSE <<"rm">>) ELSE <<>>

\* C7: a RESET invocation issues, after its queries, stop when the
\* container was observed existing and running, rm when observed existing
\* and stopped, and no teardown when observed absent, followed by the
\* Create sequence; no other stop or rm is issued.
C7_ResetSequence ==
  \A p \in Procs :
    (Validated(p) /\ op[p] = "RESET") =>
      RanTo(p, TeardownTags(exists[p], running[p]) \o CreateTags(cfg[p]))

C7_Witness ==
  \E p \in Procs :
    /\ Validated(p) /\ op[p] = "RESET" /\ exists[p] /\ running[p]
    /\ cfg[p].script = NoScript
    /\ Tags(AfterQueries(p)) = <<"stop", "makedirs", "build", "run">>

\* ------------------------------------------------------------------ C8
\* C8: a NUKE invocation issues, after its queries, the teardown its
\* observation calls for (stop, rm or none), then rmi once, then the
\* Create sequence, in this order, for every observed (exists, running).
C8_NukeSequence ==
  \A p \in Procs :
    (Validated(p) /\ op[p] = "NUKE") =>
      RanTo(p, TeardownTags(exists[p], running[p]) \o <<"rmi">>
                 \o CreateTags(cfg[p]))

C8_Witness ==
  \E p \in Procs :
    /\ Validated(p) /\ op[p] = "NUKE" /\ exists[p] /\ ~running[p]
    /\ pc[p] = "done" /\ cfg[p].script = NoScript
    /\ Tags(AfterQueries(p)) = <<"rm", "rmi", "makedirs", "build", "run">>
    /\ AllOk(AfterQueries(p))

\* ------------------------------------------------------------------ C9
\* C9: a START, STOP or RESTART invocation that passed validation makes
\* exactly one call after its queries, docker start / stop / restart on the
\* container name, and prints the completion line exactly when that call
\* succeeded.
C9_SingleAction ==
  \A p \in Procs :
    (Validated(p) /\ op[p] \in {"START", "STOP", "RESTART"}
       /\ ~TableRejects(op[p], exists[p], running[p])) =>
      /\ IsPrefix(Tags(AfterQueries(p)), <<LowerName(op[p])>>)
      /\ pc[p] = "done" =>
           /\ Len(AfterQueries(p)) = 1
           /\ AfterQueries(p)[1].argv = <<"docker", LowerName(op[p]), name>>
           /\ Len(EngineCalls(p)) = 3
           /\ AfterQueries(p)[1].result = "ok"
                => out[p] = <<CompletedLine(op[p])>>
           /\ AfterQueries(p)[1].result # "ok"
                => \A i \in 1..Len(out[p]) : out[p][i] # CompletedLine(op[p])

C9_Witness ==
  \E p \in Procs :
    /\ Validated(p) /\ op[p] = "START" /\ exists[p] /\ ~running[p]
    /\ pc[p] = "done"
    /\ trace[p][Len(trace[p])] = Call(<<"docker", "start", name>>, "ok")
    /\ out[p] = <<"Operation 'start' completed!">>

\* ------------------------------------------------------------------ C10
\* the values that follow the occurrences of a flag in an argv
RECURSIVE ValuesAfter(_, _)
ValuesAfter(argv, flag) ==
  IF Len(argv) < 2 THEN <<>>
  ELSE IF argv[1] = flag
         THEN <<argv[2]>> \o ValuesAfter(SubSeq(argv, 3, Len(argv)), flag)
         ELSE ValuesAfter(Tail(argv), flag)

Occurrences(argv, x) == Cardinality({ i \in 1..Len(argv) : argv[i] = x })

\* C10: the argv run_cmd returns has one -p host:container pair per
\* configured port, in the configured order with duplicates kept; -u with
\* the configured user exactly when root is false; the container identity
\* after --name and as the image (last) argument; exactly one -v, mapping
\* the workspace to /home/<user>/workspace.
C10_RunCmd ==
  pc[TestObj] = "cmd" =>
    LET cmd == trace[TestObj][1].argv
        c   == cfg[TestObj]
    IN /\ ValuesAfter(cmd, "-p") =
            [i \in 1..Len(c.ports) |->
               ToString(c.ports[i][1]) \o ":" \o ToString(c.ports[i][2])]
       /\ Occurrences(cmd, "-p") = Len(c.ports)
       /\ Occurrences(cmd, "-u") = (IF c.root THEN 0 ELSE 1)
       /\ ValuesAfter(cmd, "-u") = (IF c.root THEN <<>> ELSE <<c.user>>)
       /\ ValuesAfter(cmd, "--name") = <<name>>
       /\ cmd[Len(cmd)] = name
       /\ Occurrences(cmd, "-v") = 1
       /\ ValuesAfter(cmd, "-v") = <<c.ws \o ":/home/" \o c.user \o "/workspace">>

C10_Witness ==
  /\ pc[TestObj] = "cmd"
  /\ cfg[TestObj].ports = <<<<8080, 80>>, <<8080, 80>>>>
  /\ ~cfg[TestObj].root
  /\ cfg[TestObj].user = "alice"
  /\ trace[TestObj][1].argv[6] = "-p"

\* ------------------------------------------------------------------ C11
Printed(p, line) == \E i \in 1..Len(out[p]) : out[p][i] = line
SomeFailed(cs) == \E i \in 1..Len(cs) : cs[i].result # "ok"

\* C11: an invocation that has ended has printed the completion line only
\* if it passed validation and every call of its sequence succeeded; if
\* any engine action failed it has printed some other line and no
\* completion line.
C11_ExclusiveReporting ==
  \A p \in Procs :
    pc[p] = "done" =>
      /\ Printed(p, CompletedLine(op[p])) =>
           /\ Validated(p)
           /\ ~TableRejects(op[p], exists[p], running[p])
           /\ AllOk(AfterQueries(p))
      /\ SomeFailed(Actions(p)) =>
           /\ \E i \in 1..Len(out[p]) : out[p][i] # CompletedLine(op[p])
           /\ ~Printed(p, CompletedLine(op[p]))

\* ------------------------------------------------------------------ C12
HasTag(cs, t) == \E i \in 1..Len(cs) : Tag(cs[i]) = t

\* C12: a RESET or NUKE invocation that observed the container existing
\* and running issues no rm; its docker run is issued while the container
\* still exists and never succeeds; once its stop has succeeded the
\* invocation ends with the old container stopped, not with a new one
\* running.
C12_RunOverStoppedContainer ==
  \A p \in Procs :
    (Validated(p) /\ op[p] \in {"RESET", "NUKE"} /\ exists[p] /\ running[p]) =>
      /\ ~HasTag(AfterQueries(p), "rm")
      /\ pc[p] = "run" => cExists
      /\ \A i \in 1..Len(AfterQueries(p)) :
           Tag(AfterQueries(p)[i]) = "run" => AfterQueries(p)[i].result # "ok"
      /\ (pc[p] = "done" /\ AfterQueries(p)[1].result = "ok")
           => cExists /\ ~cRunning

C12_Witness ==
  \E p \in Procs :
    /\ Validated(p) /\ op[p] = "NUKE" /\ exists[p] /\ running[p]
    /\ pc[p] = "done"
    /\ Tags(AfterQueries(p)) = <<"stop", "rmi", "makedirs", "build", "run">>
    /\ AfterQueries(p)[5].result = "cpe"
    /\ cExists /\ ~cRunning

\* ------------------------------------------------------------------ C13
\* C13: the engine calls of an invocation begin with docker ps -a and then
\* docker ps, no later call is a query and no call of the sequence comes
\* before them; validation is reached with exactly these two queries made;
\* the first call of RESET and NUKE is the one the two observed values
\* select, whatever the engine's state is by then.
C13_ObservedOnce ==
  \A p \in Procs :
    LET ec == EngineCalls(p)
    IN /\ Len(ec) >= 1 => ec[1].argv[2] = "ps" /\ ec[1].argv[3] = "-a"
       /\ Len(ec) >= 2 => ec[2].argv[2] = "ps" /\ ec[2].argv[3] = "--filter"
       /\ \A i \in 3..Len(ec) : ~IsQuery(ec[i])
       /\ \A i, j \in 1..Len(trace[p]) :
            (IsStep(trace[p][i]) /\ IsQuery(trace[p][j])) => j < i
       /\ (pc[p] = "checks" \/ AfterQueries(p) # <<>>)
            => Len(SelectSeq(trace[p], IsQuery)) = 2
       /\ (op[p] \in {"RESET", "NUKE"} /\ AfterQueries(p) # <<>>) =>
            Tag(AfterQueries(p)[1]) =
              (IF exists[p] THEN (IF running[p] THEN "stop" ELSE "rm")
               ELSE IF op[p] = "NUKE" THEN "rmi" ELSE "makedirs")

C13_Witness ==
  \E p \in Procs :
    /\ op[p] = "RESET" /\ ~exists[p] /\ cExists
    /\ Tags(AfterQueries(p)) = <<"makedirs", "build">>
    /\ Len(EngineCalls(p)) = 3

\* ------------------------------------------------------------------ C15
\* the engine state in which the next call of the invocation is issued
\* satisfies the precondition its validation stands for
IssuedInValidState(p) ==
  /\ pc[p] = "start" => cExists /\ ~cRunning
  /\ pc[p] = "stop" => cExists /\ cRunning
  /\ pc[p] = "restart" => cExists
  /\ (pc[p] = "teardown" /\ running[p]) => cExists /\ cRunning
  /\ (pc[p] = "teardown" /\ ~running[p]) => cExists /\ ~cRunning
  /\ (pc[p] = "run" /\ op[p] = "CREATE") => ~cExists

\* both state queries of the invocation returned (no exception was turned
\* into False)
QueriesOk(p) ==
  \A i \in 1..Len(trace[p]) : IsQuery(trace[p][i]) => trace[p][i].result = "ok"

LastCall(p) == trace[p][Len(trace[p])]

\* C16 as stated: an exec is issued only while the container is running;
\* sync and cache-drop only when it was observed running, the startup exec
\* only right after a docker run that succeeded (looked at for invocations
\* whose queries both returned).
C16_ExecOnRunning ==
  \A p \in Procs : QueriesOk(p) =>
    /\ pc[p] \in {"sync", "drop", "script"} => cExists /\ cRunning
    /\ pc[p] \in {"sync", "drop"} => running[p]
    /\ pc[p] = "script" => Tag(LastCall(p)) = "run" /\ LastCall(p).result = "ok"

\* C16 amended: sync and cache-drop are issued only in a CLEAN invocation
\* that observed the container existing (running or not); the startup exec
\* is issued only right after a docker run that succeeded in the same
\* invocation, while that container exists and runs.
C16_ExecOnObserved ==
  \A p \in Procs :
    /\ pc[p] \in {"sync", "drop"} => op[p] = "CLEAN" /\ exists[p]
    /\ pc[p] = "script" =>
         /\ Tag(LastCall(p)) = "run" /\ LastCall(p).result = "ok"
         /\ cExists /\ cRunning
    /\ \A i \in 1..Len(AfterQueries(p)) :
         Tag(AfterQueries(p)[i]) = "exec" =>
           \/ op[p] = "CLEAN" /\ exists[p] /\ i <= 2
           \/ /\ i > 1
              /\ Tag(AfterQueries(p)[i - 1]) = "run"
              /\ AfterQueries(p)[i - 1].result = "ok"

C16_Witness ==
  \E p \in Procs :
    /\ Validated(p) /\ op[p] = "CLEAN" /\ exists[p] /\ ~running[p]
    /\ cExists /\ ~cRunning
    /\ LastCall(p) = Call(SyncArgv(name), "cpe")

\* ------------------------------------------------------------------ C17
QueryCount(p) == Len(SelectSeq(trace[p], IsQuery))
NoRepeat(cs) == \A i, j \in 1..Len(cs) : cs[i].argv = cs[j].argv => i = j

\* C17 as stated, the part a finished invocation shows: exactly two state
\* queries, at most five engine actions, none issued twice.
C17_TwoQueriesFiveActions ==
  \A p \in Procs :
    pc[p] = "done" =>
      /\ QueryCount(p) = 2
      /\ Len(Actions(p)) <= 5
      /\ NoRepeat(Actions(p))

C17_State ==
  \A p \in Procs :
    /\ Len(Actions(p)) <= 5
    /\ NoRepeat(trace[p])
    /\ pc[p] = "done" =>
         \/ QueryCount(p) = 2
         \/ /\ EngineCalls(p) = <<>>
            /\ trace[p] # <<>>
            /\ IsSetupCall(LastCall(p))
            /\ LastCall(p).result # "ok"

\* C17 amended: every invocation ends (every exception is caught inside
\* run), with exactly two state queries made, or with no engine call at all
\* when setup() raised; it issues at most five engine actions and no call
\* twice, so nothing that failed is tried again.
C17_Terminates ==
  /\ []C17_State
  /\ \A p \in Procs : (pc[p] = "setup") ~> (pc[p] = "done")

C17_Witness ==
  \E p \in Procs :
    /\ pc[p] = "done" /\ op[p] = "NUKE" /\ QueryCount(p) = 2
    /\ Tags(Actions(p)) = <<"rm", "rmi", "build", "run", "exec">>
    /\ AllOk(Actions(p))

Resolved(g, e, envValue, default) ==
  IF g # None THEN g[1] ELSE IF e # None THEN envValue ELSE default

\* C18: after the constructor, called directly or from main, every
\* RuntimeConfig field holds the explicit override when one was given,
\* otherwise the value of its DOCKER_ variable when set, otherwise the
\* built-in default.
C18_Precedence ==
  \A p \in Procs :
    pc[p] \in {"built", "parsed"} =>
      LET g == given[p]
          c == cfg[p]
      IN /\ c.user = Resolved(g.user, environ["USER"], "envuser", "developer")
         /\ c.pwd = Resolved(g.pwd, environ["PASS"], "envpass", "password")
         /\ c.ws = Resolved(g.ws, environ["WORKSPACE"], "/env/ws", "/cwd/workspace")
         /\ c.script = Resolved(g.script, environ["STARTUP"], "env.sh", NoScript)
         /\ c.root = Resolved(g.root, environ["ROOT"], TRUE, FALSE)
         /\ c.ports = Resolved(g.ports, environ["PORTS"],
                               <<<<8080, 80>>, <<2222, 22>>>>, <<>>)

====
